---------------------------- MODULE Spec2Model ----------------------------
(* A model of fashion-hyperparameter/optimize_class.py: the FlowRunner     *)
(* (workspace handling, replayable input generators, the engine's index    *)
(* and search entry points), the OptimizerCallback accumulator and the     *)
(* Optimizer (parameter sampling, pod templating, trials, export).         *)
(*                                                                         *)
(* A scalar of a YAML file or of a sampled parameter is its type and its   *)
(* text; a float is a pair <<numerator, denominator>>; a path is a         *)
(* sequence of its parts; an ordered dict is a sequence of [k, v] records  *)
(* in insertion order.                                                     *)
EXTENDS Integers, Sequences, FiniteSets, TLC

VARIABLES
    \* OptimizerCallback
    op_name,                  \* self.op_name ("" is None)
    evaluation_values,        \* self.evaluation_values, an ordered dict
    n_docs,                   \* self.n_docs
    mean_result,              \* what get_mean_evaluation returned, until the next response
    hist,                     \* history: what the responses processed so far held
    cb_calls,                 \* number of callback calls made
    \* FlowRunner
    index_document_generator, \* self.index_document_generator
    query_document_generator, \* self.query_document_generator
    query_batch_size,         \* self.query_batch_size
    env_yaml,                 \* the mapping in the file self.env_yaml ("none": no file)
    env_parameters,           \* self.env_parameters ("unset": attribute missing)
    os_environ,               \* os.environ
    overwrite_workspace,      \* self.overwrite_workspace
    fs,                       \* the directories on disk
    engine,                   \* history: the engine's entry points as invoked
    last_call,                \* history: the last FlowRunner call and how it ended
    \* Optimizer
    overwrite_trial_workspace,\* self.overwrite_trial_workspace
    pc,                       \* position of optimize_flow / _objective
    trial_no,                 \* number of the running trial
    trial,                    \* the running trial: params, trial_parameters, workspace
    trials,                   \* study.trials: finished trials, params and value
    run,                      \* history of the running trial's run_evaluation
    best_config,              \* the mapping in the file best_config_filepath
    \* _create_trial_pods on one pod file
    template,                 \* the pod template file
    trial_parameters,         \* the mapping given to _create_trial_pods
    written                   \* the file written to the trial's pods directory

cbVars == <<op_name, evaluation_values, n_docs, mean_result, hist, cb_calls>>
runnerVars == <<index_document_generator, query_document_generator,
                query_batch_size, env_yaml, env_parameters, os_environ,
                overwrite_workspace, fs, engine, last_call>>
optVars == <<overwrite_trial_workspace, pc, trial_no, trial, trials, run,
             best_config>>
podVars == <<template, trial_parameters, written>>
vars == <<cbVars, runnerVars, optVars, podVars>>

-----------------------------------------------------------------------------
(* Bounds of the model.                                                    *)
MaxDocs == 2        \* documents in one response given to a callback on its own
MaxResponses == 2   \* responses given to a callback on its own
MaxCalls == 3       \* calls of a FlowRunner on its own
MaxTrials == 2      \* n_trials
MaxTokLen == 2      \* symbols in one value of a pod template

Metrics == {"m1", "m2"}
Values == {1, 2}

RECURSIVE SeqsUpTo(_, _)
SeqsUpTo(S, n) ==
    IF n = 0 THEN {<<>>}
    ELSE LET shorter == SeqsUpTo(S, n - 1)
         IN  shorter \cup {Append(s, e) : s \in {t \in shorter : Len(t) = n - 1}, e \in S}

Min(a, b) == IF a < b THEN a ELSE b
Max(a, b) == IF a > b THEN a ELSE b

-----------------------------------------------------------------------------
(* Python dict, in insertion order.                                        *)
DictKeys(d) == {d[i].k : i \in 1..Len(d)}
DictHas(d, key) == key \in DictKeys(d)
DictAt(d, key) == d[CHOOSE i \in 1..Len(d) : d[i].k = key].v
DictGet(d, key, default) == IF DictHas(d, key) THEN DictAt(d, key) ELSE default
DictSet(d, key, val) ==
    IF DictHas(d, key)
    THEN [i \in 1..Len(d) |-> IF d[i].k = key THEN [k |-> key, v |-> val] ELSE d[i]]
    ELSE Append(d, [k |-> key, v |-> val])

-----------------------------------------------------------------------------
(* OptimizerCallback.                                                      *)
Evaluation(m, x) == [op_name |-> m, value |-> x]
\* doc.evaluations: none, one, several of one metric, of two metrics
Documents ==
    {<<>>} \cup {<<Evaluation("m1", x)>> : x \in Values}
    \cup {<<Evaluation("m1", 1), Evaluation("m1", 2)>>,
          <<Evaluation("m2", 2), Evaluation("m1", 1)>>}
Responses == SeqsUpTo(Documents, MaxDocs)        \* response.search.docs

\* line 100, for the evaluations of one document in order
RECURSIVE AddEvaluations(_, _)
AddEvaluations(ev, evaluations) ==
    IF evaluations = <<>> THEN ev
    ELSE LET e == Head(evaluations)
         IN  AddEvaluations(DictSet(ev, e.op_name, DictGet(ev, e.op_name, 0) + e.value),
                            Tail(evaluations))

\* lines 98-100
RECURSIVE AddDocs(_, _)
AddDocs(ev, docs) ==
    IF docs = <<>> THEN ev
    ELSE AddDocs(AddEvaluations(ev, Head(docs).evaluations), Tail(docs))

\* line 96, assigning the count
NDocsAssigned(n, docs) == Len(docs)
\* line 96
NDocsAfter(n, docs) == n + Len(docs)

\* process_result as a function of the accumulator
ProcessResult(acc, docs) ==
    [evaluation_values |-> AddDocs(acc.evaluation_values, docs),
     n_docs |-> NDocsAfter(acc.n_docs, docs)]

\* lines 90-93: a dict of floats, a float, or an exception
GetMeanEvaluation(name, ev, n) ==
    IF name /= ""
    THEN IF ~DictHas(ev, name) THEN [raised |-> "KeyError", scalar |-> TRUE, means |-> <<>>]
         ELSE IF n = 0 THEN [raised |-> "ZeroDivisionError", scalar |-> TRUE, means |-> <<>>]
         ELSE [raised |-> "", scalar |-> TRUE,
               means |-> <<[k |-> name, v |-> <<DictAt(ev, name), n>>]>>]
    ELSE IF ev /= <<>> /\ n = 0
         THEN [raised |-> "ZeroDivisionError", scalar |-> FALSE, means |-> <<>>]
         ELSE [raised |-> "", scalar |-> FALSE,
               means |-> [i \in 1..Len(ev) |-> [k |-> ev[i].k, v |-> <<ev[i].v, n>>]]]

NotCalled == [raised |-> "not called", scalar |-> FALSE, means |-> <<>>]

\* history of the responses, counted from the responses themselves
RECURSIVE Flatten(_)
Flatten(docs) == IF docs = <<>> THEN <<>> ELSE Head(docs).evaluations \o Flatten(Tail(docs))
RECURSIVE SumOf(_, _)
SumOf(evaluations, m) ==
    IF evaluations = <<>> THEN 0
    ELSE (IF Head(evaluations).op_name = m THEN Head(evaluations).value ELSE 0)
         + SumOf(Tail(evaluations), m)
CountOf(evaluations, m) ==
    Cardinality({i \in 1..Len(evaluations) : evaluations[i].op_name = m})
HistAfter(h, docs) ==
    [sum |-> [m \in Metrics |-> h.sum[m] + SumOf(Flatten(docs), m)],
     count |-> [m \in Metrics |-> h.count[m] + CountOf(Flatten(docs), m)],
     docs |-> h.docs + Len(docs)]
NoHist == [sum |-> [m \in Metrics |-> 0], count |-> [m \in Metrics |-> 0], docs |-> 0]

AsDocs(shapes) == [i \in 1..Len(shapes) |-> [evaluations |-> shapes[i]]]

\* lines 84-88
CallbackInit(name) ==
    /\ op_name = name
    /\ evaluation_values = <<>>
    /\ n_docs = 0
    /\ mean_result = NotCalled
    /\ hist = NoHist
    /\ cb_calls = 0

\* lines 95-100
process_result(response) ==
    LET acc == ProcessResult([evaluation_values |-> evaluation_values, n_docs |-> n_docs],
                             response)
    IN  /\ evaluation_values' = acc.evaluation_values
        /\ n_docs' = acc.n_docs
        /\ hist' = HistAfter(hist, response)
        /\ mean_result' = NotCalled
        /\ UNCHANGED op_name

\* lines 90-93
get_mean_evaluation ==
    /\ mean_result' = GetMeanEvaluation(op_name, evaluation_values, n_docs)
    /\ UNCHANGED <<op_name, evaluation_values, n_docs, hist>>

-----------------------------------------------------------------------------
(* Pod templates. A value of a template is a sequence of symbols: "$" or a *)
(* name; the token of parameter alpha is <<"$", "alpha">>. A sampled       *)
(* scalar v stands in a file as <<v>>.                                     *)
Symbols == {"$", "alpha", "beta"}
TemplateValues == SeqsUpTo(Symbols, MaxTokLen) \ {<<>>}
Mappings == UNION {[keys -> TemplateValues] : keys \in SUBSET {"p"}}
SectionsOver(names) == UNION {[present -> Mappings] : present \in SUBSET names}
TopSections == {"with", "requests"}
ComponentSections == {"metas"}
Templates == [top : SectionsOver(TopSections),
              components : {<<>>} \cup {<<c>> : c \in SectionsOver(ComponentSections)}]

\* str.lstrip('$')
RECURSIVE LStrip(_)
LStrip(val) == IF val /= <<>> /\ Head(val) = "$" THEN LStrip(Tail(val)) ELSE val

\* line 139
StrippedName(val) == LStrip(val)

\* lines 140-141 for one value
ReplacedValue(val, tp) ==
    LET name == StrippedName(val)
    IN  IF Len(name) = 1 /\ name[1] \in DOMAIN tp THEN <<tp[name[1]]>> ELSE val

\* lines 135-142
ReplaceParam(parameters, tp) ==
    [section \in DOMAIN parameters |->
        IF section \in {"with", "metas"}
        THEN [param \in DOMAIN parameters[section] |->
                 ReplacedValue(parameters[section][param], tp)]
        ELSE parameters[section]]

\* lines 149-155 for one pod file
CreateTrialPod(file, tp) ==
    [top |-> ReplaceParam(file.top, tp),
     components |-> [i \in 1..Len(file.components) |-> ReplaceParam(file.components[i], tp)]]

NoTemplate == [top |-> <<>>, components |-> <<>>]
NotWritten == [done |-> FALSE, file |-> NoTemplate]

\* lines 144-155, one pod file in self.pod_dir
create_trial_pods ==
    /\ ~written.done
    /\ written' = [done |-> TRUE, file |-> CreateTrialPod(template, trial_parameters)]
    /\ UNCHANGED <<template, trial_parameters>>

-----------------------------------------------------------------------------
(* Files and directories. fs maps a top-level directory to whether it      *)
(* exists and, for each entry it can hold, the run that wrote the entry:   *)
(* 0 for no entry, -1 for an entry older than the program's run.           *)
workspace_env == "JINA_WORKSPACE"                 \* lines 19, 108, 117
ParamNames == <<"alpha">>                         \* the keys of parameter_yaml
IntScalar(text) == [type |-> "int", text |-> text]
StrScalar(text) == [type |-> "str", text |-> text]
ParamValues == {IntScalar("1"), IntScalar("2")}   \* what trial.suggest_* may return

\* str of a scalar
Str(value) == value.text

RECURSIVE Join(_)
Join(strs) ==
    IF strs = <<>> THEN ""
    ELSE IF Len(strs) = 1 THEN strs[1]
    ELSE strs[1] \o "_" \o Join(Tail(strs))

\* line 129
TrialWorkspace(values) ==
    "JINA_WORKSPACE_" \o Join([i \in 1..Len(values) |-> Str(values[i])])

EnvWorkspace == "envws"
TrialDirs == {TrialWorkspace(vs) : vs \in [1..Len(ParamNames) -> ParamValues]}
Dirs == {EnvWorkspace} \cup TrialDirs
NoDir == [exists |-> FALSE, pods |-> 0, flows |-> 0, index |-> 0, data |-> 0]

\* Path.exists
Exists(f, path) ==
    /\ path /= <<>>
    /\ f[path[1]].exists
    /\ Len(path) = 2 => f[path[1]][path[2]] /= 0

\* shutil.rmtree
RmTree(f, path) ==
    IF Len(path) = 1 THEN [f EXCEPT ![path[1]] = NoDir]
    ELSE [f EXCEPT ![path[1]][path[2]] = 0]

\* lines 31-33, run without looking at the directory
KeepWorkdir(f, workspace) == f
\* lines 31-33
CleanWorkdir(f, workspace) == IF Exists(f, workspace) THEN RmTree(f, workspace) ELSE f

\* the engine's index flow saving its index under a directory
IndexWritten(f, path, stamp) ==
    IF Len(path) = 1 THEN [f EXCEPT ![path[1]].exists = TRUE, ![path[1]].data = stamp]
    ELSE [f EXCEPT ![path[1]].exists = TRUE, ![path[1]][path[2]] = stamp]

-----------------------------------------------------------------------------
(* Input generators. An iterator is its position in the records; src is    *)
(* how far the generator under it has been advanced.                       *)
IndexRecords == <<"i1", "i2">>
QueryRecords == <<"q1", "q2">>
RawGenerator == [pos |-> 0, src |-> 0]

\* what an iterator still yields
Remaining(it, records) == SubSeq(records, it.pos + 1, Len(records))

\* lines 62-65, 69-76 with the engine handed self's generator itself
KeptAfterShared(it, taken) == [pos |-> it.pos + taken, src |-> Max(it.src, it.pos + taken)]
\* lines 62-65, 69-76: self's generator after itertools.tee and after the
\* engine took `taken` records from the other copy
KeptAfterUse(it, taken) == [pos |-> it.pos, src |-> Max(it.src, it.pos + taken)]

-----------------------------------------------------------------------------
(* FlowRunner.                                                             *)
EnvYamls ==
    {[given |-> FALSE, params |-> ("PORT" :> IntScalar("0"))],
     [given |-> TRUE, params |-> ("PORT" :> IntScalar("8080")) @@ ("alpha" :> IntScalar("9"))],
     [given |-> TRUE, params |-> ("PORT" :> IntScalar("8080"))
                                 @@ (workspace_env :> StrScalar(EnvWorkspace))]}
Unset == [set |-> FALSE, params |-> ("PORT" :> IntScalar("0"))]
Environs == {("PATH" :> "/bin")}

\* lines 43-44
EnvironAfterLoad ==
    IF env_yaml.given
    THEN [key \in DOMAIN os_environ \cup DOMAIN env_yaml.params |->
             IF key \in DOMAIN env_yaml.params THEN Str(env_yaml.params[key])
             ELSE os_environ[key]]
    ELSE os_environ

\* line 42
ParametersAfterLoad ==
    IF env_yaml.given THEN [set |-> TRUE, params |-> env_yaml.params] ELSE env_parameters

\* line 51
Resolved(environ, workspace) ==
    IF workspace_env \in DOMAIN environ THEN <<environ[workspace_env]>> ELSE workspace

\* lines 53-60 with the test of line 54 inverted
SkipsWhenOverwriting(f, workspace) == Exists(f, workspace) /\ overwrite_workspace
\* lines 53-60: whether run_indexing returns without indexing
SkipsIndexing(f, workspace) == Exists(f, workspace) /\ ~overwrite_workspace

\* lines 54-55
FsForIndexing(f, workspace) ==
    IF Exists(f, workspace) /\ overwrite_workspace THEN CleanWorkdir(f, workspace) ELSE f

\* where the pods of the index flow may keep their index: the directory
\* run_indexing looked at, or the workspace templated into the trial's pods
IndexTargets(workspace) ==
    {workspace} \cup (IF trial.workspace = "" THEN {} ELSE {<<trial.workspace>>})

\* the runs whose entries a directory holds
Holds(f, path) ==
    IF ~Exists(f, path) THEN {}
    ELSE IF Len(path) = 2 THEN {f[path[1]][path[2]]}
    ELSE {f[path[1]][entry] : entry \in {"pods", "flows", "index", "data"}} \ {0}

\* history of a call: its outcome, where it raised, the workspace it resolved,
\* whether that existed on entry, and what it held once past lines 53-60
Called(op, outcome, at, workspace, found, held) ==
    [n |-> last_call.n + 1, op |-> op, outcome |-> outcome, at |-> at,
     workspace |-> workspace, found |-> found, held |-> held]
NoCall == [n |-> 0, op |-> "", outcome |-> "", at |-> "", workspace |-> <<>>,
           found |-> FALSE, held |-> {}]
NoEngine == [index_calls |-> 0, search_calls |-> 0,
             index_input |-> <<>>, query_input |-> <<>>]

\* lines 39-47, ending in an exception (a missing or malformed env_yaml)
load_env_raises ==
    /\ env_yaml.given
    /\ UNCHANGED <<env_parameters, os_environ>>

\* lines 39-47
load_env ==
    /\ env_parameters' = ParametersAfterLoad
    /\ os_environ' = EnvironAfterLoad

\* lines 49-65
run_indexing(workspace) ==
    /\ UNCHANGED <<query_document_generator, query_batch_size, env_yaml,
                   overwrite_workspace, cbVars>>
    /\ \/ /\ load_env_raises
          /\ last_call' = Called("run_indexing", "raised", "_load_env", <<>>, FALSE, {})
          /\ UNCHANGED <<index_document_generator, fs, engine>>
       \/ /\ load_env
          /\ LET ws == Resolved(EnvironAfterLoad, workspace)
                 offered == Remaining(index_document_generator, IndexRecords)
                 cleaned == FsForIndexing(fs, ws)
                 invoked == [engine EXCEPT !.index_calls = @ + 1, !.index_input = offered]
             IN  IF SkipsIndexing(fs, ws)
                 THEN /\ last_call' = Called("run_indexing", "skipped", "", ws, TRUE, Holds(fs, ws))
                      /\ UNCHANGED <<index_document_generator, fs, engine>>
                 ELSE \/ \* Flow().load_config(index_yaml) raises
                         /\ last_call' = Called("run_indexing", "raised", "load_config(index)", ws,
                                             Exists(fs, ws), Holds(cleaned, ws))
                         /\ index_document_generator' = KeptAfterUse(index_document_generator, 0)
                         /\ fs' = cleaned
                         /\ UNCHANGED engine
                      \/ \* f.index raises after taking some of the records
                         \E taken \in 0..Len(offered) :
                            /\ last_call' = Called("run_indexing", "raised", "index", ws,
                                                Exists(fs, ws), Holds(cleaned, ws))
                            /\ index_document_generator' =
                                   KeptAfterUse(index_document_generator, taken)
                            /\ fs' = cleaned
                            /\ engine' = invoked
                      \/ \* f.index returns
                         \E target \in IndexTargets(ws) :
                            /\ last_call' = Called("run_indexing", "ok", "", ws,
                                                Exists(fs, ws), Holds(cleaned, ws))
                            /\ index_document_generator' =
                                   KeptAfterUse(index_document_generator, Len(offered))
                            /\ fs' = IndexWritten(cleaned, target, invoked.index_calls)
                            /\ engine' = invoked


\* the engine's batching of the records it is given
RECURSIVE Batches(_, _)
Batches(records, size) ==
    IF records = <<>> THEN <<>>
    ELSE <<SubSeq(records, 1, Min(size, Len(records)))>>
         \o Batches(SubSeq(records, Min(size, Len(records)) + 1, Len(records)), size)

\* what the engine's evaluators may attach to one document of a response
SearchDocuments == {<<>>} \cup {<<Evaluation("m1", x)>> : x \in Values}
\* the responses of one search: one per batch, one document per record
ResponsesFor(batches) ==
    {[b \in 1..Len(batches) |-> AsDocs(shapes[b])] :
        shapes \in {sh \in [1..Len(batches) -> SeqsUpTo(SearchDocuments, Len(QueryRecords))] :
                       \A b \in 1..Len(batches) : Len(sh[b]) = Len(batches[b])}}

RECURSIVE ProcessAll(_, _)
ProcessAll(acc, responses) ==
    IF responses = <<>> THEN acc
    ELSE ProcessAll(ProcessResult(acc, Head(responses)), Tail(responses))
RECURSIVE HistAfterAll(_, _)
HistAfterAll(h, responses) ==
    IF responses = <<>> THEN h
    ELSE HistAfterAll(HistAfter(h, Head(responses)), Tail(responses))
RECURSIVE RecordsIn(_)
RecordsIn(batches) == IF batches = <<>> THEN 0 ELSE Len(Head(batches)) + RecordsIn(Tail(batches))

\* output_fn=callback: the callback run on the responses delivered
Delivered(responses) ==
    LET acc == ProcessAll([evaluation_values |-> evaluation_values, n_docs |-> n_docs],
                          responses)
    IN  /\ evaluation_values' = acc.evaluation_values
        /\ n_docs' = acc.n_docs
        /\ hist' = HistAfterAll(hist, responses)
        /\ cb_calls' = cb_calls + Len(responses)
        /\ mean_result' = IF responses = <<>> THEN mean_result ELSE NotCalled
        /\ UNCHANGED op_name

\* lines 67-76, with callback = OptimizerCallback.process_result
run_querying ==
    /\ UNCHANGED <<index_document_generator, query_batch_size, env_yaml,
                   overwrite_workspace, fs>>
    /\ \/ /\ load_env_raises
          /\ last_call' = Called("run_querying", "raised", "_load_env", <<>>, FALSE, {})
          /\ UNCHANGED <<query_document_generator, engine, cbVars>>
       \/ /\ load_env
          /\ LET offered == Remaining(query_document_generator, QueryRecords)
                 batches == Batches(offered, query_batch_size)
                 invoked == [engine EXCEPT !.search_calls = @ + 1, !.query_input = offered]
             IN  \/ \* Flow().load_config(query_yaml) raises
                    /\ last_call' = Called("run_querying", "raised", "load_config(query)", <<>>, FALSE, {})
                    /\ query_document_generator' = KeptAfterUse(query_document_generator, 0)
                    /\ UNCHANGED <<engine, cbVars>>
                 \/ \E responses \in ResponsesFor(batches) :
                       \/ \* f.search raises after delivering some of the responses
                          \E done \in 0..Len(batches) :
                             /\ last_call' = Called("run_querying", "raised", "search", <<>>, FALSE, {})
                             /\ query_document_generator' =
                                    KeptAfterUse(query_document_generator,
                                                 RecordsIn(SubSeq(batches, 1, done)))
                             /\ engine' = invoked
                             /\ Delivered(SubSeq(responses, 1, done))
                       \/ \* f.search returns
                          /\ last_call' = Called("run_querying", "ok", "", <<>>, FALSE, {})
                          /\ query_document_generator' =
                                 KeptAfterUse(query_document_generator, Len(offered))
                          /\ engine' = invoked
                          /\ Delivered(responses)

-----------------------------------------------------------------------------
(* Optimizer.                                                              *)
NoTrial == [params |-> ("alpha" :> IntScalar("")),
            trial_parameters |-> ("alpha" :> IntScalar("")), workspace |-> ""]
NoRun == [evaluation_values |-> <<>>, n_docs |-> 0, hist |-> NoHist,
          search_calls |-> 0, events |-> <<>>, failed_at |-> ""]

\* lines 125-128: the mapping of the sampled values
SampledParams(values) ==
    [name \in {ParamNames[i] : i \in 1..Len(ParamNames)} |->
        values[CHOOSE i \in 1..Len(ParamNames) : ParamNames[i] = name]]

\* {**first, **second} with the first mapping winning
MergedFirstWins(first, second) ==
    [key \in DOMAIN first \cup DOMAIN second |->
        IF key \in DOMAIN first THEN first[key] ELSE second[key]]
\* {**first, **second}
Merged(first, second) ==
    [key \in DOMAIN first \cup DOMAIN second |->
        IF key \in DOMAIN second THEN second[key] ELSE first[key]]

\* lines 122-132
TrialParameters(values) ==
    Merged(SampledParams(values), (workspace_env :> StrScalar(TrialWorkspace(values))))

\* lines 176-177
FsForTrial(f, workspace) ==
    IF overwrite_trial_workspace THEN CleanWorkdir(f, <<workspace>>) ELSE f

\* lines 145-146, 158-159, 167-168: the pods and flows of the trial written
TrialFilesWritten(f, workspace, stamp) ==
    [f EXCEPT ![workspace].exists = TRUE, ![workspace].pods = stamp,
              ![workspace].flows = stamp]

\* floats as <<numerator, denominator>>, denominators positive
Less(a, b) == a[1] * b[2] < b[1] * a[2]
SameFloat(a, b) == a[1] * b[2] = b[1] * a[2]

\* study.best_trial: the first finished trial no other trial beats
BestTrial(finished, dir) ==
    LET beats(a, b) == IF dir = "maximize" THEN Less(b, a) ELSE Less(a, b)
        best == CHOOSE i \in 1..Len(finished) :
                    /\ \A j \in 1..Len(finished) : ~beats(finished[j].value, finished[i].value)
                    /\ \A j \in 1..(i - 1) :
                          \E l \in 1..Len(finished) : beats(finished[l].value, finished[j].value)
    IN  finished[best]

\* lines 78-81 with a failure of run_indexing caught
ContinuesAfterIndexing(outcome) == "run_querying"
\* lines 80-81: where run_evaluation goes after run_indexing
AfterIndexing(outcome) == IF outcome = "raised" THEN "failed" ELSE "run_querying"

\* lines 171-180
objective_prepare ==
    /\ pc = "objective"
    /\ \E values \in [1..Len(ParamNames) -> ParamValues] :
          LET workspace == TrialWorkspace(values)
              cleaned == FsForTrial(fs, workspace)
          IN  /\ trial_no' = trial_no + 1
              /\ trial' = [params |-> SampledParams(values),
                           trial_parameters |-> TrialParameters(values),
                           workspace |-> workspace]
              /\ IF cleaned[workspace].pods /= 0
                 THEN \* shutil.copytree: the destination exists
                      /\ fs' = cleaned
                      /\ pc' = "failed"
                      /\ run' = [NoRun EXCEPT !.failed_at = "copytree"]
                 ELSE /\ fs' = TrialFilesWritten(cleaned, workspace, trial_no')
                      /\ pc' = "run_evaluation"
                      /\ run' = [NoRun EXCEPT !.evaluation_values = evaluation_values,
                                              !.n_docs = n_docs, !.hist = hist,
                                              !.search_calls = engine.search_calls]
    /\ UNCHANGED <<cbVars, index_document_generator, query_document_generator,
                   query_batch_size, env_yaml, env_parameters, os_environ,
                   overwrite_workspace, engine, last_call,
                   overwrite_trial_workspace, trials, best_config, podVars>>

\* lines 78-79
run_evaluation ==
    /\ pc = "run_evaluation"
    /\ \/ /\ load_env_raises
          /\ pc' = "failed"
          /\ run' = [run EXCEPT !.failed_at = "_load_env"]
       \/ /\ load_env
          /\ pc' = "run_indexing"
          /\ UNCHANGED run
    /\ UNCHANGED <<cbVars, index_document_generator, query_document_generator,
                   query_batch_size, env_yaml, overwrite_workspace, fs, engine, last_call,
                   overwrite_trial_workspace, trial_no, trial, trials,
                   best_config, podVars>>

\* line 80
objective_indexing ==
    /\ pc = "run_indexing"
    /\ run_indexing(<<trial.workspace, "index">>)
    /\ pc' = AfterIndexing(last_call'.outcome)
    /\ run' = [run EXCEPT !.events = Append(@, <<"index", last_call'.outcome>>),
                          !.failed_at = IF last_call'.outcome = "raised"
                                        THEN last_call'.at ELSE @]
    /\ UNCHANGED <<overwrite_trial_workspace, trial_no, trial, trials,
                   best_config, podVars>>

\* line 81
objective_querying ==
    /\ pc = "run_querying"
    /\ run_querying
    /\ pc' = IF last_call'.outcome = "raised" THEN "failed" ELSE "mean"
    /\ run' = [run EXCEPT !.events = Append(@, <<"search", last_call'.outcome>>),
                          !.failed_at = IF last_call'.outcome = "raised"
                                        THEN last_call'.at ELSE @]
    /\ UNCHANGED <<overwrite_trial_workspace, trial_no, trial, trials,
                   best_config, podVars>>

\* lines 184-188
objective_mean ==
    /\ pc = "mean"
    /\ LET result == GetMeanEvaluation(op_name, evaluation_values, n_docs)
       IN  /\ mean_result' = result
           /\ IF result.raised /= "" \/ result.scalar \/ result.means = <<>>
              THEN \* the division, list(float) or [0] of an empty list raises
                   /\ pc' = "failed"
                   /\ run' = [run EXCEPT !.failed_at = "get_mean_evaluation"]
                   /\ UNCHANGED trials
              ELSE LET metric == result.means[1].k
                   IN  /\ trials' = Append(trials,
                              [number |-> trial_no, params |-> trial.params,
                               value |-> result.means[1].v,
                               sum |-> hist.sum[metric] - run.hist.sum[metric],
                               count |-> hist.count[metric] - run.hist.count[metric],
                               docs |-> hist.docs - run.hist.docs])
                       /\ pc' = IF trial_no < MaxTrials THEN "objective" ELSE "export"
                       /\ UNCHANGED run
    /\ UNCHANGED <<op_name, evaluation_values, n_docs, hist, cb_calls, runnerVars,
                   overwrite_trial_workspace, trial_no, trial,
                   best_config, podVars>>

\* lines 190-194, after the study of direction `direction` (lines 199-203)
export_params(direction) ==
    /\ pc = "export"
    /\ IF env_parameters.set
       THEN /\ best_config' = [written |-> TRUE, direction |-> direction,
                               params |-> Merged(env_parameters.params,
                                                 BestTrial(trials, direction).params)]
            /\ pc' = "done"
            /\ UNCHANGED run
       ELSE \* self.flow_runner.env_parameters: no such attribute
            /\ pc' = "failed"
            /\ run' = [run EXCEPT !.failed_at = "_export_params"]
            /\ UNCHANGED best_config
    /\ UNCHANGED <<cbVars, runnerVars, overwrite_trial_workspace, trial_no,
                   trial, trials, podVars>>

-----------------------------------------------------------------------------
(* Initial values.                                                         *)
NoConfig == [written |-> FALSE, direction |-> "", params |-> ("PORT" :> IntScalar("0"))]
InitialFs ==
    {[d \in Dirs |-> NoDir],
     [d \in Dirs |-> IF d = EnvWorkspace THEN [NoDir EXCEPT !.exists = TRUE, !.data = -1]
                     ELSE NoDir]}

\* lines 16-28
RunnerInit ==
    /\ index_document_generator = RawGenerator
    /\ query_document_generator = RawGenerator
    /\ query_batch_size \in 1..Len(QueryRecords)
    /\ env_yaml \in EnvYamls
    /\ env_parameters = Unset
    /\ os_environ \in Environs
    /\ overwrite_workspace \in BOOLEAN
    /\ fs \in InitialFs
    /\ engine = NoEngine
    /\ last_call = NoCall

OptimizerIdle ==
    /\ overwrite_trial_workspace = TRUE
    /\ pc = "idle"
    /\ trial_no = 0
    /\ trial = NoTrial
    /\ trials = <<>>
    /\ run = NoRun
    /\ best_config = NoConfig

PodsIdle ==
    /\ template = NoTemplate
    /\ trial_parameters = ("alpha" :> "")
    /\ written = NotWritten

RunnerIdle ==
    /\ index_document_generator = RawGenerator
    /\ query_document_generator = RawGenerator
    /\ query_batch_size = 1
    /\ env_yaml \in {e \in EnvYamls : ~e.given}
    /\ env_parameters = Unset
    /\ os_environ = ("PATH" :> "/bin")
    /\ overwrite_workspace = FALSE
    /\ fs = [d \in Dirs |-> NoDir]
    /\ engine = NoEngine
    /\ last_call = NoCall

-----------------------------------------------------------------------------
(* optimize_flow: the study of MaxTrials trials and the export.            *)
Init ==
    /\ \E name \in {"", "m1"} : CallbackInit(name)
    /\ RunnerInit
    /\ overwrite_trial_workspace \in BOOLEAN
    /\ pc = "objective"
    /\ trial_no = 0
    /\ trial = NoTrial
    /\ trials = <<>>
    /\ run = NoRun
    /\ best_config = NoConfig
    /\ PodsIdle

Next ==
    \/ objective_prepare
    \/ run_evaluation
    \/ objective_indexing
    \/ objective_querying
    \/ objective_mean
    \/ \E direction \in {"maximize", "minimize"} : export_params(direction)

Spec == Init /\ [][Next]_vars

-----------------------------------------------------------------------------
(* A FlowRunner called on its own: run_indexing and run_querying in any    *)
(* order, MaxCalls calls.                                                  *)
WorkspaceArguments == {<<d, "index">> : d \in TrialDirs}

runner_indexing ==
    /\ last_call.n < MaxCalls
    /\ \E workspace \in WorkspaceArguments : run_indexing(workspace)
    /\ UNCHANGED <<optVars, podVars>>

runner_querying ==
    /\ last_call.n < MaxCalls
    /\ run_querying
    /\ UNCHANGED <<optVars, podVars>>

InitRunner ==
    /\ CallbackInit("")
    /\ RunnerInit
    /\ OptimizerIdle
    /\ PodsIdle

NextRunner == runner_indexing \/ runner_querying

SpecRunner == InitRunner /\ [][NextRunner]_vars

-----------------------------------------------------------------------------
(* An OptimizerCallback called on its own: MaxResponses responses, and     *)
(* get_mean_evaluation at any time.                                        *)
callback_process_result ==
    /\ cb_calls < MaxResponses
    /\ \E response \in Responses : process_result(AsDocs(response))
    /\ cb_calls' = cb_calls + 1
    /\ UNCHANGED <<runnerVars, optVars, podVars>>

callback_get_mean_evaluation ==
    /\ get_mean_evaluation
    /\ UNCHANGED <<cb_calls, runnerVars, optVars, podVars>>

InitCallback ==
    /\ \E name \in {""} \cup Metrics : CallbackInit(name)
    /\ RunnerIdle
    /\ OptimizerIdle
    /\ PodsIdle

NextCallback == callback_process_result \/ callback_get_mean_evaluation

SpecCallback == InitCallback /\ [][NextCallback]_vars

-----------------------------------------------------------------------------
(* _create_trial_pods on every pod template and every sampled value.       *)
PodParameters ==
    {("alpha" :> Str(v)) @@ (workspace_env :> TrialWorkspace(<<v>>)) : v \in ParamValues}

InitPods ==
    /\ CallbackInit("")
    /\ RunnerIdle
    /\ OptimizerIdle
    /\ template \in Templates
    /\ trial_parameters \in PodParameters
    /\ written = NotWritten

NextPods == create_trial_pods /\ UNCHANGED <<cbVars, runnerVars, optVars>>

SpecPods == InitPods /\ [][NextPods]_vars

-----------------------------------------------------------------------------
(* Properties.                                                             *)

\* C1: once get_mean_evaluation has returned, every metric m for which the
\* responses held N > 0 evaluation values summing to S has the mean S/N: as
\* the entry of m when op_name is unset, as the result when op_name is m.
C1_MeanIsSumOverCount ==
    mean_result /= NotCalled =>
        \A m \in Metrics :
            (hist.count[m] > 0 /\ op_name \in {"", m}) =>
                /\ mean_result.raised = ""
                /\ DictHas(mean_result.means, m)
                /\ SameFloat(DictAt(mean_result.means, m), <<hist.sum[m], hist.count[m]>>)

\* C2: a run_indexing call of a FlowRunner with overwrite_workspace = False
\* whose resolved workspace exists does not invoke the engine, leaves every
\* directory as it was and leaves the index document generator as it was.
C2_SkippedIndexingIsNoOp ==
    [][(/\ last_call'.n = last_call.n + 1
        /\ last_call'.op = "run_indexing"
        /\ ~overwrite_workspace
        /\ Exists(fs, last_call'.workspace))
       => (/\ engine' = engine
           /\ fs' = fs
           /\ index_document_generator' = index_document_generator)]_vars

\* C2 happens: indexing was skipped after an earlier call had indexed.
C2_Witness ==
    /\ last_call.op = "run_indexing"
    /\ last_call.outcome = "skipped"
    /\ ~overwrite_workspace
    /\ engine.index_calls > 0

\* what C3 asks of one value: a token of a sampled parameter becomes the
\* parameter's value, anything else stays
TokenReplaced(val, tp) ==
    IF Len(val) = 2 /\ val[1] = "$" /\ val[2] \in DOMAIN tp THEN <<tp[val[2]]>> ELSE val
TokensReplaced(sections, tp) ==
    [section \in DOMAIN sections |->
        [param \in DOMAIN sections[section] |-> TokenReplaced(sections[section][param], tp)]]

\* C3: the written pod file is the template with exactly the tokens of
\* sampled parameters replaced by the sampled values, wherever they stand.
C3_ExactlyTokensReplaced ==
    written.done =>
        /\ written.file.top = TokensReplaced(template.top, trial_parameters)
        /\ Len(written.file.components) = Len(template.components)
        /\ \A i \in 1..Len(template.components) :
              written.file.components[i]
                  = TokensReplaced(template.components[i], trial_parameters)

\* C4: n_docs is never negative, is the number of documents of all the
\* responses processed so far, and no call decreases it.
C4_DocCountMonotone ==
    /\ [](n_docs >= 0 /\ n_docs = hist.docs)
    /\ [][n_docs' >= n_docs]_vars

\* C4 happens: documents were counted over several responses and the mean read.
C4_Witness ==
    /\ cb_calls = MaxResponses
    /\ n_docs > MaxDocs
    /\ mean_result /= NotCalled

\* C5: the best-configuration file has the keys of env_yaml and of a winning
\* trial; the trial's keys have the trial's values, the others env_yaml's.
C5_BestConfigIsMerge ==
    pc = "done" =>
        /\ best_config.written
        /\ \E i \in 1..Len(trials) :
              LET won == trials[i].params
                  env == env_yaml.params
              IN  /\ \A j \in 1..Len(trials) :
                        IF best_config.direction = "maximize"
                        THEN ~Less(trials[i].value, trials[j].value)
                        ELSE ~Less(trials[j].value, trials[i].value)
                  /\ DOMAIN best_config.params = DOMAIN env \cup DOMAIN won
                  /\ \A key \in DOMAIN won : best_config.params[key] = won[key]
                  /\ \A key \in DOMAIN env \ DOMAIN won :
                        best_config.params[key] = env[key]

\* C5 happens: env_yaml and the winning trial share a key, with two values,
\* and env_yaml has a key no trial samples.
C5_Witness ==
    /\ pc = "done"
    /\ \E key \in DOMAIN env_yaml.params :
          /\ key \in DOMAIN trials[1].params
          /\ \A i \in 1..Len(trials) : trials[i].params[key] /= env_yaml.params[key]
    /\ \E key \in DOMAIN env_yaml.params : key \notin DOMAIN trials[1].params

\* C6: the value _objective returned for a trial is the mean of the values
\* recorded during that trial (stated for trials none of which had a
\* document with no or several evaluations, where C1's divergence is absent).
C6_TrialValueIsTrialMean ==
    \A i \in 1..Len(trials) :
        (\A j \in 1..i : trials[j].count = trials[j].docs /\ trials[j].count > 0) =>
            SameFloat(trials[i].value, <<trials[i].sum, trials[i].count>>)

\* C7: in every trial the index entry point has completed before the search
\* entry point is invoked, and a trial starts only after the search of the
\* trial before it has completed.
C7_IndexThenQuery ==
    /\ (engine.search_calls > run.search_calls \/ pc = "mean") =>
           (run.events /= <<>> /\ run.events[1] = <<"index", "ok">>)
    /\ (pc = "objective" /\ trial_no > 0) =>
           run.events = <<<<"index", "ok">>, <<"search", "ok">>>>

\* C8: with overwrite_trial_workspace, when _objective calls run_evaluation
\* the trial workspace holds the pods and flows of this trial and nothing
\* else; and a workspace run_indexing found and was to overwrite holds
\* nothing once indexing starts.
C8_WorkspaceRecreated ==
    /\ (pc = "run_evaluation" /\ overwrite_trial_workspace) =>
           fs[trial.workspace] = [exists |-> TRUE, pods |-> trial_no, flows |-> trial_no,
                                  index |-> 0, data |-> 0]
    /\ (last_call.op = "run_indexing" /\ last_call.found /\ overwrite_workspace) =>
           last_call.held = {}

\* C8 happens: a later trial has the workspace name of an earlier trial whose
\* index was kept in it.
C8_Witness ==
    /\ pc = "run_evaluation"
    /\ overwrite_trial_workspace
    /\ trial_no > 1
    /\ trials[1].params = trial.params
    /\ engine.index_calls > 0
    /\ last_call.op = "run_querying"

\* C9: when loading a configuration or the index entry point fails in
\* run_evaluation, the failure ends the trial and the study, the search entry
\* point was not invoked in that run, the accumulator is as it was when the
\* run began and no value was returned for the trial.
C9_FailuresPropagate ==
    run.failed_at \in {"_load_env", "load_config(index)", "load_config(query)", "index"} =>
        /\ pc = "failed"
        /\ engine.search_calls = run.search_calls
        /\ evaluation_values = run.evaluation_values
        /\ n_docs = run.n_docs
        /\ Len(trials) = trial_no - 1

\* C9 happens: the index entry point failed in a trial after the first.
C9_Witness ==
    /\ run.failed_at = "index"
    /\ pc = "failed"
    /\ n_docs > 0

\* C10: every invocation of the index entry point is given all the index
\* records in order, and every invocation of the search entry point all the
\* query records in order.
C10_GeneratorsReplay ==
    /\ engine.index_calls > 0 => engine.index_input = IndexRecords
    /\ engine.search_calls > 0 => engine.query_input = QueryRecords

\* C10 happens: both entry points were invoked again after an invocation had
\* taken records, and after a call that skipped indexing.
C10_Witness ==
    /\ engine.index_calls + engine.search_calls >= 2
    /\ last_call.n = MaxCalls
    /\ index_document_generator.src > 0
    /\ query_document_generator.src > 0

=============================================================================
